---- MODULE Spec2Model ----
(***************************************************************************)
(* StudyBuddyAI backend: the content-generation pipeline                   *)
(* (validation -> prompt composition -> external call -> normalization)    *)
(* of summarize_text, generate_quiz and transcribe_audio, and the three    *)
(* FastAPI handlers that wrap them.                                        *)
(*                                                                         *)
(* In Spec and SpecNorm one invocation is in flight at a time; SpecConc     *)
(* runs several requests side by side.  An invocation starts at the        *)
(* function                                                                *)
(* ("fn": a direct Python caller, as the unit tests do) or at the endpoint *)
(* ("http": the handler, whose request object has passed the pydantic      *)
(* model).  The external provider's answer is an input of the step that    *)
(* resumes the function after the call.                                    *)
(*                                                                         *)
(* Strings are sequences of pieces [s, n]: the text s repeated n times.    *)
(* An f-string is the concatenation of its parts.                          *)
(***************************************************************************)
EXTENDS Integers, Sequences, FiniteSets, TLC

\* ------------------------------------------------------------------ bounds

\* longest run of whitespace put before or after a caller's text
MaxPad == 1
\* longest provider content, in tokens, of the fence-stripping inputs
MaxContentLen == 4
\* most elements of a provider's JSON list
MaxElems == 2

\* requests in flight at the same time
MaxRequests == 2

\* ------------------------------------------------------------------ strings

Lit(s) == <<[s |-> s, n |-> 1]>>

Rep(s, k) == IF k = 0 THEN <<>> ELSE <<[s |-> s, n |-> k]>>

Whitespace == {" ", "\n"}

RECURSIVE LStrip(_)
LStrip(str) ==
    IF str # <<>> /\ Head(str).s \in Whitespace THEN LStrip(Tail(str)) ELSE str

RECURSIVE RStrip(_)
RStrip(str) ==
    IF str # <<>> /\ str[Len(str)].s \in Whitespace
    THEN RStrip(SubSeq(str, 1, Len(str) - 1))
    ELSE str

\* str.strip()
Strip(str) == RStrip(LStrip(str))

\* len(str)
RECURSIVE StrLen(_)
StrLen(str) ==
    IF str = <<>> THEN 0 ELSE Len(Head(str).s) * Head(str).n + StrLen(Tail(str))

\* sub in str, piece-wise
Contains(str, sub) ==
    \E i \in 0..(Len(str) - Len(sub)) : SubSeq(str, i + 1, i + Len(sub)) = sub

\* not s, for a Python str
Falsy(str) == str = <<>>

\* a caller's text: lead blanks, core non-blank characters, trail blanks
Text(lead, core, trail) == Rep(" ", lead) \o Rep("a", core) \o Rep(" ", trail)

\* ------------------------------------------------------------------ exceptions

\* Python's exception classes that the code raises or catches, with their bases
Bases(t) ==
    CASE t = "JSONDecodeError" -> {"JSONDecodeError", "ValueError", "Exception"}
      [] t = "ValidationError" -> {"ValidationError", "ValueError", "Exception"}
      [] t = "FileNotFoundError" -> {"FileNotFoundError", "OSError", "Exception"}
      [] t = "PermissionError" -> {"PermissionError", "OSError", "Exception"}
      [] OTHER -> {t, "Exception"}

IsInstance(t, cls) == cls \in Bases(t)

Raise(t, m) == [kind |-> "raise", exc |-> t, msg |-> m]

Return(v) == [kind |-> "return", value |-> v]

NoOutcome == [kind |-> "none"]

NoRequest == [api |-> "none"]

\* ------------------------------------------------------------------ environment

EnvUnset == [set |-> FALSE, val |-> ""]

EnvVal(v) == [set |-> TRUE, val |-> v]

EnvValues == {EnvUnset, EnvVal(""), EnvVal("sk-test")}

\* a slip: "if api_key is None", which lets the empty credential through
get_openai_client_NoneOnly(key) ==
    IF ~key.set
    THEN Raise("ValueError", Lit("OPENAI_API_KEY environment variable is not set"))
    ELSE Return("client")

\* get_openai_client: if not api_key: raise ValueError(...), else a new client
get_openai_client(key) ==
    IF ~key.set \/ key.val = ""
    THEN Raise("ValueError", Lit("OPENAI_API_KEY environment variable is not set"))
    ELSE Return("client")

\* ------------------------------------------------------------------ summarize_text

SummaryMaxChars == 10000

LearningStyles == {"visual", "auditory", "reading", "kinesthetic"}

style_prompts(style) ==
    CASE style = "visual" -> "Create a summary with bullet points, clear structure, and suggest visual elements that would help understanding."
      [] style = "auditory" -> "Create a summary that flows well when read aloud, using conversational tone and natural speech patterns."
      [] style = "reading" -> "Create a well-structured summary with clear sections and logical flow for text-based learning."
      [] style = "kinesthetic" -> "Create a summary with practical examples, real-world applications, and hands-on learning suggestions."

\* style_prompts.get(learning_style, style_prompts['reading'])
SummaryStylePhrase(style) ==
    IF style \in LearningStyles THEN style_prompts(style) ELSE style_prompts("reading")

SummarySystemPrompt(style) ==
    Lit("You are a helpful study assistant for students with learning difficulties. \n    ")
    \o Lit(SummaryStylePhrase(style))
    \o Lit("\n    Keep summaries concise but comprehensive. Be encouraging and patient.")

SummaryUserPrompt(input_text) == Lit("Summarize this text for studying:\n\n") \o input_text

FallbackSummary ==
    Lit("I'm having trouble generating a summary right now. Please try again in a moment, or contact support if the issue persists.")

\* a slip: "if not input_text", without the strip()
SummarizeValidate_NoStrip(a) ==
    IF Falsy(a.input_text)
    THEN Raise("ValueError", Lit("Input text cannot be empty"))
    ELSE IF StrLen(a.input_text) > SummaryMaxChars
    THEN Raise("ValueError", Lit("Input text too long (max 10,000 characters)"))
    ELSE NoOutcome

\* the input checks of summarize_text, in the code's order
SummarizeValidate(a) ==
    IF Falsy(a.input_text) \/ Falsy(Strip(a.input_text))
    THEN Raise("ValueError", Lit("Input text cannot be empty"))
    ELSE IF StrLen(a.input_text) > SummaryMaxChars
    THEN Raise("ValueError", Lit("Input text too long (max 10,000 characters)"))
    ELSE NoOutcome

SummarizeRequestOut(a) ==
    [api |-> "chat.completions",
     model |-> "gpt-3.5-turbo",
     system |-> SummarySystemPrompt(a.learning_style),
     user |-> SummaryUserPrompt(a.input_text),
     temperature |-> "0.7",
     max_tokens |-> a.max_tokens]

\* summarize_text up to the external call: either it has raised, or the request
\* is on its way.  clients counts the client handles built.
SummarizeBegin(a, key) ==
    LET v == SummarizeValidate(a)
        c == get_openai_client(key)
    IN  IF v.kind = "raise" THEN [outcome |-> v, clients |-> 0, request |-> NoRequest]
        ELSE IF c.kind = "raise" THEN [outcome |-> c, clients |-> 0, request |-> NoRequest]
        ELSE [outcome |-> NoOutcome, clients |-> 1, request |-> SummarizeRequestOut(a)]

\* the body of the try block after the call returned or raised
SummarizeTry(r) ==
    CASE r.kind = "raises" -> Raise(r.exc, r.text)
      [] r.kind = "nochoices" -> Raise("IndexError", Lit("list index out of range"))
      [] r.kind = "none" -> Raise("RuntimeError", Lit("OpenAI returned empty response"))
      [] r.kind = "text" ->
            IF Falsy(r.body)
            THEN Raise("RuntimeError", Lit("OpenAI returned empty response"))
            ELSE Return(Strip(r.body))

\* a slip: "except RuntimeError", which lets the provider's own errors out
SummarizeExcept_RuntimeErrorOnly(inner) ==
    IF inner.kind = "raise" /\ IsInstance(inner.exc, "RuntimeError")
    THEN Return(FallbackSummary)
    ELSE inner

\* except Exception as e: logs and returns the fixed apology
SummarizeExcept(inner) ==
    IF inner.kind = "raise" /\ IsInstance(inner.exc, "Exception")
    THEN Return(FallbackSummary)
    ELSE inner

SummarizeResume(r) == SummarizeExcept(SummarizeTry(r))

\* ------------------------------------------------------------------ generate_quiz

QuizMaxChars == 8000

MinQuestions == 1

MaxQuestions == 10

DifficultyLevels == {"middle_school", "high_school", "college"}

difficulty_prompts(d) ==
    CASE d = "middle_school" -> "Create basic comprehension questions that test understanding of main ideas and key facts."
      [] d = "high_school" -> "Create questions that test analysis, inference, and deeper understanding beyond memorization."
      [] d = "college" -> "Create advanced questions requiring critical thinking, synthesis, and evaluation of complex concepts."

style_adaptations(style) ==
    CASE style = "visual" -> "Include references to diagrams, charts, or visual representations when relevant. Use clear, structured question formats."
      [] style = "auditory" -> "Write questions in a conversational style that sound natural when read aloud. Use rhythm and flow."
      [] style = "reading" -> "Use traditional academic question formats with precise language and clear structure."
      [] style = "kinesthetic" -> "Focus on application scenarios, real-world examples, and hands-on problem-solving situations."

\* a slip: the first entry of the table as the default
QuizDifficultyPhrase_FirstAsDefault(d) ==
    IF d \in DifficultyLevels THEN difficulty_prompts(d) ELSE difficulty_prompts("middle_school")

\* difficulty_prompts.get(difficulty, difficulty_prompts['high_school'])
QuizDifficultyPhrase(d) ==
    IF d \in DifficultyLevels THEN difficulty_prompts(d) ELSE difficulty_prompts("high_school")

\* style_adaptations.get(learning_style, style_adaptations['reading'])
QuizStylePhrase(style) ==
    IF style \in LearningStyles THEN style_adaptations(style) ELSE style_adaptations("reading")

\* a slip: the default count written into the template
QuizCountText_Default(num_questions) == ToString(3)

\* the {num_questions} substitution of the system prompt
QuizCountText(num_questions) == ToString(num_questions)

QuizSystemPrompt(num_questions, difficulty, learning_style) ==
    Lit("You are an expert educational assessment creator for StudyBuddy AI.\n    \n    ")
    \o Lit("Create ") \o Lit(QuizCountText(num_questions))
    \o Lit(" multiple-choice questions from the given text.")
    \o Lit("\n    \n    Difficulty level: ") \o Lit(difficulty)
    \o Lit("\n    ") \o Lit(QuizDifficultyPhrase(difficulty))
    \o Lit("\n    \n    Learning style adaptation: ") \o Lit(learning_style)
    \o Lit("\n    ") \o Lit(QuizStylePhrase(learning_style))
    \o Lit("\n    \n    Requirements:\n    - Each question must have exactly 4 options (A, B, C, D)\n    - Only one correct answer per question\n    - Include explanation for why the correct answer is right\n    - Questions should test understanding, not just memorization\n    - Use inclusive, encouraging language\n    \n    Return ONLY valid JSON in this exact format: [...]")

QuizUserPrompt(text) == Lit("Generate quiz questions from this content:\n\n") \o Strip(text)

\* a slip: "len(text) >= 8000"
QuizValidate_AtCeiling(a) ==
    IF Falsy(a.text) \/ Falsy(Strip(a.text))
    THEN Raise("ValueError", Lit("Input text cannot be empty"))
    ELSE IF ~(MinQuestions <= a.num_questions /\ a.num_questions <= MaxQuestions)
    THEN Raise("ValueError", Lit("Number of questions must be between 1 and 10"))
    ELSE IF StrLen(a.text) >= QuizMaxChars
    THEN Raise("ValueError", Lit("Text too long for quiz generation (max 8000 characters)"))
    ELSE NoOutcome

\* the input checks of generate_quiz, in the code's order
QuizValidate(a) ==
    IF Falsy(a.text) \/ Falsy(Strip(a.text))
    THEN Raise("ValueError", Lit("Input text cannot be empty"))
    ELSE IF ~(MinQuestions <= a.num_questions /\ a.num_questions <= MaxQuestions)
    THEN Raise("ValueError", Lit("Number of questions must be between 1 and 10"))
    ELSE IF StrLen(a.text) > QuizMaxChars
    THEN Raise("ValueError", Lit("Text too long for quiz generation (max 8000 characters)"))
    ELSE NoOutcome

QuizRequestOut(a) ==
    [api |-> "chat.completions",
     model |-> "gpt-3.5-turbo",
     system |-> QuizSystemPrompt(a.num_questions, a.difficulty, a.learning_style),
     user |-> QuizUserPrompt(a.text),
     temperature |-> "0.3",
     max_tokens |-> 1500]

\* generate_quiz up to the external call
QuizBegin(a, key) ==
    LET v == QuizValidate(a)
        c == get_openai_client(key)
    IN  IF v.kind = "raise" THEN [outcome |-> v, clients |-> 0, request |-> NoRequest]
        ELSE IF c.kind = "raise" THEN [outcome |-> c, clients |-> 0, request |-> NoRequest]
        ELSE [outcome |-> NoOutcome, clients |-> 1, request |-> QuizRequestOut(a)]

\* --- the provider's content: a sequence of tokens.  A token is one character
\* (a backtick "tick", a blank, a newline, some other character "x"), the word
\* "json",
\* or a complete JSON text standing for the value it denotes.

Tok(c) == [ch |-> c]

DocTok(d) == [ch |-> "<json>", doc |-> d]

FenceOpen == <<Tok("tick"), Tok("tick"), Tok("tick"), Tok("json")>>

FenceClose == <<Tok("tick"), Tok("tick"), Tok("tick")>>

RECURSIVE LStripTok(_)
LStripTok(c) ==
    IF c # <<>> /\ Head(c).ch \in Whitespace THEN LStripTok(Tail(c)) ELSE c

RECURSIVE RStripTok(_)
RStripTok(c) ==
    IF c # <<>> /\ c[Len(c)].ch \in Whitespace
    THEN RStripTok(SubSeq(c, 1, Len(c) - 1))
    ELSE c

StripTok(c) == RStripTok(LStripTok(c))

StartsWith(c, p) == Len(c) >= Len(p) /\ SubSeq(c, 1, Len(p)) = p

EndsWith(c, p) == Len(c) >= Len(p) /\ SubSeq(c, Len(c) - Len(p) + 1, Len(c)) = p

\* a slip: cleaned_content[3:], which leaves the word json in front
CutFenceOpen_TicksOnly(c) ==
    IF StartsWith(c, FenceOpen) THEN SubSeq(c, Len(FenceClose) + 1, Len(c)) ELSE c

\* cleaned_content[7:] : the seven characters of the opening marker
CutFenceOpen(c) ==
    IF StartsWith(c, FenceOpen) THEN SubSeq(c, Len(FenceOpen) + 1, Len(c)) ELSE c

\* cleaned_content[:-3]
CutFenceClose(c) ==
    IF EndsWith(c, FenceClose) THEN SubSeq(c, 1, Len(c) - Len(FenceClose)) ELSE c

\* a slip: the markers cut only as a pair
CleanContent_PairOnly(raw) ==
    IF StartsWith(StripTok(raw), FenceOpen) /\ EndsWith(StripTok(raw), FenceClose)
    THEN StripTok(CutFenceClose(CutFenceOpen(StripTok(raw))))
    ELSE StripTok(raw)

\* strip, cut the leading marker, cut the trailing marker, strip
CleanContent(raw) == StripTok(CutFenceClose(CutFenceOpen(StripTok(raw))))

\* json.loads: a text parses when it is one JSON text and nothing else
JsonLoads(c) ==
    IF Len(c) = 1 /\ c[1].ch = "<json>"
    THEN Return(c[1].doc)
    ELSE Raise("JSONDecodeError", Lit("Expecting value"))

required_fields == <<"question", "options", "correct_answer", "explanation">>

AnswerLetters == {"A", "B", "C", "D"}

\* [field for field in required_fields if field not in question]
MissingFields(q) == SelectSeq(required_fields, LAMBDA f : f \notin q.keys)

RECURSIVE ListRepr(_)
ListRepr(fields) ==
    IF fields = <<>> THEN <<>> ELSE Lit(Head(fields)) \o ListRepr(Tail(fields))

\* one pass of the validation loop's body on element q at 0-based index i
CheckQuestion(i, q) ==
    IF q.kind # "object"
    THEN Raise("TypeError", Lit("argument of type 'NoneType' is not iterable"))
    ELSE IF MissingFields(q) # <<>>
    THEN Raise("ValueError",
               Lit("Question ") \o Lit(ToString(i + 1)) \o Lit(" missing fields: ")
               \o ListRepr(MissingFields(q)))
    ELSE IF q.optkind # "list"
    THEN Raise("TypeError", Lit("object of type 'int' has no len()"))
    ELSE IF q.nopts # 4
    THEN Raise("ValueError",
               Lit("Question ") \o Lit(ToString(i + 1)) \o Lit(" must have exactly 4 options"))
    ELSE IF q.answer \notin AnswerLetters
    THEN Raise("ValueError",
               Lit("Question ") \o Lit(ToString(i + 1))
               \o Lit(" correct_answer must be A, B, C, or D"))
    ELSE NoOutcome

\* a slip: the loop left after its first pass
ValidateFrom_FirstOnly(i, qs) ==
    IF i >= Len(qs) THEN NoOutcome
    ELSE IF CheckQuestion(i, qs[i + 1]).kind = "raise" THEN CheckQuestion(i, qs[i + 1])
    ELSE NoOutcome

\* for i, question in enumerate(quiz_questions): the first failure ends the loop
RECURSIVE ValidateFrom(_, _)
ValidateFrom(i, qs) ==
    IF i >= Len(qs) THEN NoOutcome
    ELSE IF CheckQuestion(i, qs[i + 1]).kind = "raise" THEN CheckQuestion(i, qs[i + 1])
    ELSE ValidateFrom(i + 1, qs)

\* a slip: the isinstance(quiz_questions, list) test left out, an empty
\* object then passes the loop untouched
QuizTry_NoListCheck(r) ==
    CASE r.kind = "raises" -> Raise(r.exc, r.text)
      [] r.kind = "nochoices" -> Raise("IndexError", Lit("list index out of range"))
      [] r.kind = "none" -> Raise("RuntimeError", Lit("OpenAI returned empty response"))
      [] r.kind = "text" ->
            IF Falsy(r.body)
            THEN Raise("RuntimeError", Lit("OpenAI returned empty response"))
            ELSE LET parsed == JsonLoads(CleanContent(r.body))
                 IN  IF parsed.kind = "raise" THEN parsed
                     ELSE IF parsed.value.top # "list"
                     THEN Return(parsed.value)
                     ELSE IF ValidateFrom(0, parsed.value.elems).kind = "raise"
                     THEN ValidateFrom(0, parsed.value.elems)
                     ELSE Return(parsed.value.elems)

\* the body of the try block after the call returned or raised
QuizTry(r) ==
    CASE r.kind = "raises" -> Raise(r.exc, r.text)
      [] r.kind = "nochoices" -> Raise("IndexError", Lit("list index out of range"))
      [] r.kind = "none" -> Raise("RuntimeError", Lit("OpenAI returned empty response"))
      [] r.kind = "text" ->
            IF Falsy(r.body)
            THEN Raise("RuntimeError", Lit("OpenAI returned empty response"))
            ELSE LET parsed == JsonLoads(CleanContent(r.body))
                 IN  IF parsed.kind = "raise" THEN parsed
                     ELSE IF parsed.value.top # "list"
                     THEN Raise("ValueError", Lit("Quiz response must be a list of questions"))
                     ELSE IF ValidateFrom(0, parsed.value.elems).kind = "raise"
                     THEN ValidateFrom(0, parsed.value.elems)
                     ELSE Return(parsed.value.elems)

\* a slip: only the JSON clause, the other exceptions leave as they are
QuizExcept_JsonOnly(inner) ==
    IF inner.kind = "raise" /\ IsInstance(inner.exc, "JSONDecodeError")
    THEN Raise("RuntimeError", Lit("Failed to generate properly formatted quiz questions"))
    ELSE inner

\* except json.JSONDecodeError / except Exception
QuizExcept(inner) ==
    IF inner.kind = "raise" /\ IsInstance(inner.exc, "JSONDecodeError")
    THEN Raise("RuntimeError", Lit("Failed to generate properly formatted quiz questions"))
    ELSE IF inner.kind = "raise" /\ IsInstance(inner.exc, "Exception")
    THEN Raise("RuntimeError", Lit("Unable to generate quiz: ") \o inner.msg)
    ELSE inner

QuizResume(r) == QuizExcept(QuizTry(r))

\* ------------------------------------------------------------------ transcribe_audio

SUPPORTED_FORMATS == {".mp3", ".mp4", ".mpeg", ".mpga", ".m4a", ".wav", ".webm"}

MAX_FILE_SIZE == 25 * 1024 * 1024

\* Optional[str]
NoneVal == [isnone |-> TRUE]

Some(str) == [isnone |-> FALSE, str |-> str]

\* the truth value of an Optional[str]
Truthy(o) == ~o.isnone /\ ~Falsy(o.str)

\* str.lower() on the pieces the model's texts are made of
LowerWord(w) ==
    CASE w = ".MP3" -> ".mp3"
      [] w = ".Wav" -> ".wav"
      [] w = ".TXT" -> ".txt"
      [] w = "Rate Limit" -> "rate limit"
      [] w = "Quota" -> "quota"
      [] w = "Invalid" -> "invalid"
      [] w = "API " -> "api "
      [] OTHER -> w

RECURSIVE Lower(_)
Lower(str) ==
    IF str = <<>> THEN <<>>
    ELSE <<[s |-> LowerWord(Head(str).s), n |-> Head(str).n]>> \o Lower(Tail(str))

DefaultTranscriptionPrompt ==
    Lit("This is educational content about academic subjects. Please transcribe with attention to technical and academic vocabulary.")

\* a slip: the extension compared as written, without lower()
TranscribeValidate_CaseSensitive(a) ==
    IF ~a.exists
    THEN Raise("FileNotFoundError", Lit("Audio file not found: ") \o Lit("<path>"))
    ELSE IF a.suffix \notin SUPPORTED_FORMATS
    THEN Raise("ValueError",
               Lit("Unsupported audio format: ") \o Lit(a.suffix)
               \o Lit(". Supported formats: .m4a, .mp3, .mp4, .mpeg, .mpga, .wav, .webm"))
    ELSE IF a.size > MAX_FILE_SIZE
    THEN Raise("ValueError",
               Lit("Audio file too large: ") \o Lit("<size_mb>")
               \o Lit("MB. Maximum size: 25.0MB"))
    ELSE IF a.size = 0
    THEN Raise("ValueError", Lit("Audio file is empty"))
    ELSE NoOutcome

\* a slip: "file_size >= MAX_FILE_SIZE"
TranscribeValidate_AtCeiling(a) ==
    IF ~a.exists
    THEN Raise("FileNotFoundError", Lit("Audio file not found: ") \o Lit("<path>"))
    ELSE IF LowerWord(a.suffix) \notin SUPPORTED_FORMATS
    THEN Raise("ValueError",
               Lit("Unsupported audio format: ") \o Lit(LowerWord(a.suffix))
               \o Lit(". Supported formats: .m4a, .mp3, .mp4, .mpeg, .mpga, .wav, .webm"))
    ELSE IF a.size >= MAX_FILE_SIZE
    THEN Raise("ValueError",
               Lit("Audio file too large: ") \o Lit("<size_mb>")
               \o Lit("MB. Maximum size: 25.0MB"))
    ELSE IF a.size = 0
    THEN Raise("ValueError", Lit("Audio file is empty"))
    ELSE NoOutcome

\* the input checks of transcribe_audio, in the code's order
TranscribeValidate(a) ==
    IF ~a.exists
    THEN Raise("FileNotFoundError", Lit("Audio file not found: ") \o Lit("<path>"))
    ELSE IF LowerWord(a.suffix) \notin SUPPORTED_FORMATS
    THEN Raise("ValueError",
               Lit("Unsupported audio format: ") \o Lit(LowerWord(a.suffix))
               \o Lit(". Supported formats: .m4a, .mp3, .mp4, .mpeg, .mpga, .wav, .webm"))
    ELSE IF a.size > MAX_FILE_SIZE
    THEN Raise("ValueError",
               Lit("Audio file too large: ") \o Lit("<size_mb>")
               \o Lit("MB. Maximum size: 25.0MB"))
    ELSE IF a.size = 0
    THEN Raise("ValueError", Lit("Audio file is empty"))
    ELSE NoOutcome

\* a slip: "if prompt is not None", which lets an empty prompt through
TranscribeRequestOut_NoneTest(a) ==
    [api |-> "audio.transcriptions",
     model |-> "whisper-1",
     response_format |-> "text",
     language |-> IF Truthy(a.language) THEN a.language ELSE NoneVal,
     prompt |-> IF ~a.prompt.isnone THEN a.prompt.str ELSE DefaultTranscriptionPrompt]

TranscribeRequestOut(a) ==
    [api |-> "audio.transcriptions",
     model |-> "whisper-1",
     response_format |-> "text",
     language |-> IF Truthy(a.language) THEN a.language ELSE NoneVal,
     prompt |-> IF Truthy(a.prompt) THEN a.prompt.str ELSE DefaultTranscriptionPrompt]

\* a slip: no "except FileNotFoundError: raise" before the general clause
TranscribeExcept_NoFileClause(inner) ==
    IF inner.kind = "raise" /\ IsInstance(inner.exc, "Exception")
    THEN IF Contains(Lower(inner.msg), Lit("rate limit"))
         THEN Raise("RuntimeError", Lit("Transcription service is busy. Please try again in a moment."))
         ELSE IF Contains(Lower(inner.msg), Lit("quota"))
         THEN Raise("RuntimeError", Lit("Transcription quota exceeded. Please contact support."))
         ELSE IF Contains(Lower(inner.msg), Lit("invalid"))
         THEN Raise("RuntimeError", Lit("Audio file format not supported or corrupted."))
         ELSE Raise("RuntimeError", Lit("Transcription failed: ") \o inner.msg)
    ELSE inner

\* a slip: the quota test placed before the rate-limit test
TranscribeExcept_QuotaFirst(inner) ==
    IF inner.kind = "raise" /\ IsInstance(inner.exc, "FileNotFoundError")
    THEN inner
    ELSE IF inner.kind = "raise" /\ IsInstance(inner.exc, "Exception")
    THEN IF Contains(Lower(inner.msg), Lit("quota"))
         THEN Raise("RuntimeError", Lit("Transcription quota exceeded. Please contact support."))
         ELSE IF Contains(Lower(inner.msg), Lit("rate limit"))
         THEN Raise("RuntimeError", Lit("Transcription service is busy. Please try again in a moment."))
         ELSE IF Contains(Lower(inner.msg), Lit("invalid"))
         THEN Raise("RuntimeError", Lit("Audio file format not supported or corrupted."))
         ELSE Raise("RuntimeError", Lit("Transcription failed: ") \o inner.msg)
    ELSE inner

\* the two except clauses of transcribe_audio
TranscribeExcept(inner) ==
    IF inner.kind = "raise" /\ IsInstance(inner.exc, "FileNotFoundError")
    THEN inner
    ELSE IF inner.kind = "raise" /\ IsInstance(inner.exc, "Exception")
    THEN IF Contains(Lower(inner.msg), Lit("rate limit"))
         THEN Raise("RuntimeError", Lit("Transcription service is busy. Please try again in a moment."))
         ELSE IF Contains(Lower(inner.msg), Lit("quota"))
         THEN Raise("RuntimeError", Lit("Transcription quota exceeded. Please contact support."))
         ELSE IF Contains(Lower(inner.msg), Lit("invalid"))
         THEN Raise("RuntimeError", Lit("Audio file format not supported or corrupted."))
         ELSE Raise("RuntimeError", Lit("Transcription failed: ") \o inner.msg)
    ELSE inner

\* open(audio_file_path, "rb"): the file may have gone, or be unreadable, by now;
\* the field open of the arguments says which
OpenResults == {"ok", "FileNotFoundError", "PermissionError"}

OpenError(res) ==
    IF res = "FileNotFoundError"
    THEN Raise("FileNotFoundError", Lit("[Errno 2] No such file or directory: ") \o Lit("<path>"))
    ELSE Raise("PermissionError", Lit("[Errno 13] Permission denied: ") \o Lit("<path>"))

\* transcribe_audio up to the external call
TranscribeBegin(a, key) ==
    LET v == TranscribeValidate(a)
        c == get_openai_client(key)
    IN  IF v.kind = "raise" THEN [outcome |-> v, clients |-> 0, request |-> NoRequest]
        ELSE IF c.kind = "raise" THEN [outcome |-> c, clients |-> 0, request |-> NoRequest]
        ELSE IF a.open # "ok"
        THEN [outcome |-> TranscribeExcept(OpenError(a.open)), clients |-> 1,
              request |-> NoRequest]
        ELSE [outcome |-> NoOutcome, clients |-> 1, request |-> TranscribeRequestOut(a)]

\* a slip: "if not response" tested before the strip()
TranscribeTry_EmptyBeforeStrip(r) ==
    CASE r.kind = "raises" -> Raise(r.exc, r.text)
      [] r.kind = "none" ->
            Raise("AttributeError", Lit("'NoneType' object has no attribute 'strip'"))
      [] r.kind = "text" ->
            IF Falsy(r.body)
            THEN Return(Lit("No speech detected in the audio file."))
            ELSE Return(Strip(r.body))

\* the body of the with block after the call returned or raised
TranscribeTry(r) ==
    CASE r.kind = "raises" -> Raise(r.exc, r.text)
      [] r.kind = "none" ->
            Raise("AttributeError", Lit("'NoneType' object has no attribute 'strip'"))
      [] r.kind = "text" ->
            IF Falsy(Strip(r.body))
            THEN Return(Lit("No speech detected in the audio file."))
            ELSE Return(Strip(r.body))

TranscribeResume(r) == TranscribeExcept(TranscribeTry(r))

\* ------------------------------------------------------------------ request models

\* SummarizeRequest: text min_length=10, max_length=10000 on the text as sent,
\* then text_must_not_be_empty; learning_style an enum member; max_tokens ge=50, le=1000
SummarizeRequestValid(raw, style, max_tokens) ==
    /\ 10 <= StrLen(raw) /\ StrLen(raw) <= 10000
    /\ ~Falsy(Strip(raw))
    /\ style \in LearningStyles
    /\ 50 <= max_tokens /\ max_tokens <= 1000

\* the validated request: text_must_not_be_empty returns v.strip()
SummarizeRequest(raw, style, max_tokens) ==
    [input_text |-> Strip(raw), learning_style |-> style, max_tokens |-> max_tokens]

\* QuizGenerationRequest: text min_length=50, max_length=8000 (no validator);
\* num_questions ge=1, le=10; difficulty and learning_style enum members
QuizGenerationRequestValid(a) ==
    /\ 50 <= StrLen(a.text) /\ StrLen(a.text) <= 8000
    /\ 1 <= a.num_questions /\ a.num_questions <= 10
    /\ a.difficulty \in DifficultyLevels
    /\ a.learning_style \in LearningStyles

QuizQuestionFields == {"question", "options", "correct_answer", "explanation", "difficulty"}

\* QuizQuestion(**q), after the handler has put question_type: every field is
\* required, options is a list of 2 to 4 strings
QuizQuestion(q) ==
    IF q.kind = "object" /\ QuizQuestionFields \subseteq q.keys
       /\ q.optkind = "list" /\ 2 <= q.nopts /\ q.nopts <= 4
    THEN Return(q)
    ELSE Raise("ValidationError", Lit("1 validation error for QuizQuestion"))

\* ------------------------------------------------------------------ handlers

NoHttp == [status |-> 0]

HTTPException(status, detail) == [status |-> status, detail |-> detail]

\* a slip: summary_length=len(request.text)
SummaryHandlerExit_LengthOfRequest(a, out) ==
    IF out.kind = "return"
    THEN [status |-> 200,
          summary |-> out.value,
          learning_style_used |-> a.learning_style,
          original_length |-> StrLen(a.input_text),
          summary_length |-> StrLen(a.input_text)]
    ELSE IF IsInstance(out.exc, "ValueError")
    THEN HTTPException(400, out.msg)
    ELSE HTTPException(500, Lit("Unable to generate summary. Please try again."))

\* create_summary after summarize_text returned or raised
SummaryHandlerExit(a, out) ==
    IF out.kind = "return"
    THEN [status |-> 200,
          summary |-> out.value,
          learning_style_used |-> a.learning_style,
          original_length |-> StrLen(a.input_text),
          summary_length |-> StrLen(out.value)]
    ELSE IF IsInstance(out.exc, "ValueError")
    THEN HTTPException(400, out.msg)
    ELSE HTTPException(500, Lit("Unable to generate summary. Please try again."))

\* for q in questions: quiz_questions.append(QuizQuestion(**q)) : the first
\* element that does not validate raises
RECURSIVE BuildQuestions(_)
BuildQuestions(qs) ==
    IF qs = <<>> THEN NoOutcome
    ELSE IF QuizQuestion(Head(qs)).kind = "raise" THEN QuizQuestion(Head(qs))
    ELSE BuildQuestions(Tail(qs))

\* a slip: a fixed detail in place of str(e)
QuizHandlerExcept_GenericDetail(e) ==
    IF IsInstance(e.exc, "ValueError")
    THEN HTTPException(400, Lit("Invalid quiz generation request"))
    ELSE IF IsInstance(e.exc, "RuntimeError")
    THEN HTTPException(500, Lit("Unable to generate quiz questions. Please try again."))
    ELSE HTTPException(500, Lit("Quiz generation service temporarily unavailable."))

\* the except clauses of generate_quiz_questions
QuizHandlerExcept(e) ==
    IF IsInstance(e.exc, "ValueError")
    THEN HTTPException(400, e.msg)
    ELSE IF IsInstance(e.exc, "RuntimeError")
    THEN HTTPException(500, Lit("Unable to generate quiz questions. Please try again."))
    ELSE HTTPException(500, Lit("Quiz generation service temporarily unavailable."))

\* a slip: the conversion to QuizQuestion placed after the try statement, so
\* that its ValidationError leaves the handler
QuizHandlerExit_ConvertOutsideTry(a, out) ==
    IF out.kind = "raise" THEN QuizHandlerExcept(out)
    ELSE IF BuildQuestions(out.value).kind = "raise"
    THEN [status |-> 0, escaped |-> BuildQuestions(out.value).exc]
    ELSE [status |-> 200,
          questions |-> out.value,
          total_questions |-> Len(out.value),
          difficulty_used |-> a.difficulty,
          learning_style_used |-> a.learning_style,
          estimated_completion_time_minutes |-> (a.num_questions * 3) \div 2]

\* generate_quiz_questions after generate_quiz returned or raised
QuizHandlerExit(a, out) ==
    IF out.kind = "raise" THEN QuizHandlerExcept(out)
    ELSE IF BuildQuestions(out.value).kind = "raise"
    THEN QuizHandlerExcept(BuildQuestions(out.value))
    ELSE [status |-> 200,
          questions |-> out.value,
          total_questions |-> Len(out.value),
          difficulty_used |-> a.difficulty,
          learning_style_used |-> a.learning_style,
          estimated_completion_time_minutes |-> (a.num_questions * 3) \div 2]

\* the upload checks of transcribe_audio_file, in the code's order
UploadCheck(u) ==
    IF ~Truthy(u.filename)
    THEN HTTPException(400, Lit("No filename provided in uploaded file"))
    ELSE IF LowerWord(u.suffix) \notin SUPPORTED_FORMATS
    THEN HTTPException(400,
             Lit("Unsupported file format: ") \o Lit(LowerWord(u.suffix))
             \o Lit(". Supported: .m4a, .mp3, .mp4, .mpeg, .mpga, .wav, .webm"))
    ELSE IF u.size > MAX_FILE_SIZE
    THEN HTTPException(413, Lit("File too large: ") \o Lit("<size_mb>")
                            \o Lit("MB. Maximum: 25.0MB"))
    ELSE IF u.size = 0
    THEN HTTPException(400, Lit("Empty file uploaded"))
    ELSE NoHttp

\* a slip: NamedTemporaryFile without suffix=file_extension
TempFileArgs_NoSuffix(u) ==
    [exists |-> TRUE, suffix |-> "", size |-> u.size,
     language |-> u.language, prompt |-> u.context_prompt, open |-> u.open]

\* the arguments of the handler's call of transcribe_audio: the temporary file
\* holds the upload's bytes and is named with the lower-cased extension
TempFileArgs(u) ==
    [exists |-> TRUE, suffix |-> LowerWord(u.suffix), size |-> u.size,
     language |-> u.language, prompt |-> u.context_prompt, open |-> u.open]

\* transcribe_audio_file after transcribe_audio returned or raised
TranscribeHandlerExit(u, out) ==
    IF out.kind = "return"
    THEN [status |-> 200, transcription |-> out.value, language_detected |-> u.language]
    ELSE IF IsInstance(out.exc, "FileNotFoundError")
    THEN HTTPException(500, Lit("File processing error"))
    ELSE IF IsInstance(out.exc, "ValueError")
    THEN HTTPException(400, out.msg)
    ELSE IF IsInstance(out.exc, "RuntimeError")
    THEN HTTPException(500, out.msg)
    ELSE HTTPException(500, Lit("Transcription service temporarily unavailable"))

\* ------------------------------------------------------------------ inputs

CoreLens ==
    {0, 1, 10, 50}
    \cup ((QuizMaxChars - 2 * MaxPad) .. (QuizMaxChars + 1))
    \cup ((SummaryMaxChars - 2 * MaxPad) .. (SummaryMaxChars + 1))

\* callers' texts: around the limits, padded or not, and long runs of blanks
Texts ==
    {Text(l, c, t) : l \in 0..MaxPad, c \in CoreLens, t \in 0..MaxPad}
    \cup {Rep(" ", k) : k \in {50, QuizMaxChars + 1, SummaryMaxChars + 1}}

StyleInputs == LearningStyles \cup {"unknown"}

DifficultyInputs == DifficultyLevels \cup {"unknown"}

SummarizeArgs ==
    [input_text : Texts, learning_style : StyleInputs, max_tokens : {10, 50, 300, 1000, 5000}]

QuizArgs ==
    [text : Texts, num_questions : {0, 1, 3, 10, 11},
     difficulty : DifficultyInputs, learning_style : StyleInputs]

\* the requests of the normalization runs: the default difficulty and style,
\* two or three questions
DefaultQuizArgs ==
    [text : {Text(0, 50, 0)}, num_questions : {2, 3},
     difficulty : {"high_school"}, learning_style : {"reading"}]

Prompts == {NoneVal, Some(<<>>), Some(Lit("This is a biology lecture"))}

Suffixes == SUPPORTED_FORMATS \cup {".MP3", ".Wav", ".txt", ""}

FileSizes == {0, 1, MAX_FILE_SIZE, MAX_FILE_SIZE + 1}

TranscribeArgs ==
    [exists : BOOLEAN, suffix : Suffixes, size : FileSizes,
     language : {NoneVal, Some(Lit("en"))}, prompt : Prompts, open : OpenResults]

Uploads ==
    [filename : {NoneVal, Some(<<>>), Some(Lit("lecture"))}, suffix : Suffixes,
     size : FileSizes, language : {NoneVal, Some(Lit("en"))}, context_prompt : Prompts,
     open : OpenResults]

\* texts of the exceptions the provider's client raises
ErrTexts ==
    {Lit("API ") \o Lit("rate limit"),
     Lit("Quota") \o Lit(" exceeded"),
     Lit("Invalid") \o Lit(" file"),
     Lit("Rate Limit") \o Lit(" and ") \o Lit("quota"),
     Lit("Invalid") \o Lit(" request, ") \o Lit("Quota"),
     Lit("connection reset")}

Raises(t) == [kind |-> "raises", exc |-> "APIError", text |-> t]

NoReply == [kind |-> "noreply"]

FailureReplies == {Raises(t) : t \in ErrTexts} \cup {[kind |-> "none"]}

TextReply(b) == [kind |-> "text", body |-> b]

SummaryBodies ==
    {Rep(" ", l) \o core \o Rep("\n", t) :
        l \in 0..MaxPad, t \in 0..MaxPad, core \in {<<>>, Lit("Summary text")}}

SummaryReplies ==
    FailureReplies \cup {[kind |-> "nochoices"]} \cup {TextReply(b) : b \in SummaryBodies}

\* the provider's client raising an exception of another class
RaisesAs(exc, t) == [kind |-> "raises", exc |-> exc, text |-> t]

TranscriptionReplies ==
    FailureReplies
    \cup {RaisesAs("FileNotFoundError", Lit("API ") \o Lit("rate limit")),
          RaisesAs("ValueError", Lit("Quota") \o Lit(" exceeded"))}
    \cup {TextReply(b) : b \in SummaryBodies}

\* --- JSON values of the provider's quiz content

RequiredSet == {"question", "options", "correct_answer", "explanation"}

Obj(keys, nopts, answer) ==
    [kind |-> "object", keys |-> keys, optkind |-> "list", nopts |-> nopts,
     answer |-> answer]

\* null, a number, true: not a container
NullElem == [kind |-> "null"]

\* an object whose "options" is a number
NumOptsElem ==
    [kind |-> "object", keys |-> QuizQuestionFields, optkind |-> "number", nopts |-> 0,
     answer |-> "A"]

GoodElem == Obj(QuizQuestionFields, 4, "A")

KeySets ==
    {QuizQuestionFields, RequiredSet, RequiredSet \ {"explanation"},
     QuizQuestionFields \ {"options", "correct_answer"}}

Elems ==
    {Obj(k, n, a) : k \in KeySets, n \in {3, 4}, a \in {"A", "E"}}
    \cup {NullElem, NumOptsElem}

ListDoc(es) == [top |-> "list", elems |-> es]

ObjectDoc == [top |-> "object", elems |-> <<>>]

Docs ==
    {ListDoc(es) : es \in UNION {[1..n -> Elems] : n \in 0..MaxElems}} \cup {ObjectDoc}

Fenced(c) == FenceOpen \o <<Tok("\n")>> \o c \o <<Tok("\n")>> \o FenceClose

\* the characters and JSON texts the fence-stripping inputs are made of
ContentAlphabet ==
    {Tok("tick"), Tok("json"), Tok("\n"), Tok("x"),
     DocTok(ListDoc(<<GoodElem>>)), DocTok(ListDoc(<<Obj(RequiredSet, 3, "A")>>)),
     DocTok(ObjectDoc)}

Contents == UNION {[1..n -> ContentAlphabet] : n \in 0..MaxContentLen}

\* all the provider may answer to a quiz request
QuizRepliesAll ==
    FailureReplies \cup {[kind |-> "nochoices"]}
    \cup {TextReply(c) : c \in Contents}
    \cup {TextReply(<<DocTok(d)>>) : d \in Docs}

\* a few of them, for the runs that vary the request
QuizRepliesFew ==
    FailureReplies \cup {[kind |-> "nochoices"]}
    \cup {TextReply(c) :
            c \in {<<>>, <<Tok("x")>>, <<Tok("\n")>>,
                   <<DocTok(ObjectDoc)>>,
                   <<DocTok(ListDoc(<<>>))>>,
                   <<DocTok(ListDoc(<<GoodElem>>))>>,
                   Fenced(<<DocTok(ListDoc(<<GoodElem, GoodElem>>))>>),
                   <<DocTok(ListDoc(<<Obj(RequiredSet, 4, "A")>>))>>,
                   <<DocTok(ListDoc(<<Obj(QuizQuestionFields, 3, "A")>>))>>,
                   <<DocTok(ListDoc(<<GoodElem, Obj(RequiredSet \ {"explanation"}, 3, "A")>>))>>,
                   <<DocTok(ListDoc(<<NullElem>>))>>}}

\* ------------------------------------------------------------------ state

VARIABLES
    apiKey,     \* os.getenv("OPENAI_API_KEY")
    pc,         \* "idle", "awaiting" (the external call is out), "done"
    op,         \* "summarize", "quiz", "transcribe"
    layer,      \* "fn" or "http"
    args,       \* the function's arguments, or the upload of transcribe_audio_file
    sent,       \* the request given to the provider
    extCalls,   \* external calls issued in this invocation
    clients,    \* client handles built in this invocation
    reply,      \* what the provider answered
    outcome,    \* what the pipeline function returned or raised
    http,       \* the handler's response
    tmpFile     \* the handler's temporary file: "none", "present", "deleted"

vars == <<apiKey, pc, op, layer, args, sent, extCalls, clients, reply, outcome, http, tmpFile>>

NoArgs == [none |-> TRUE]

Init ==
    /\ apiKey \in EnvValues
    /\ pc = "idle"
    /\ op = "none"
    /\ layer = "none"
    /\ args = NoArgs
    /\ sent = NoRequest
    /\ extCalls = 0
    /\ clients = 0
    /\ reply = NoReply
    /\ outcome = NoOutcome
    /\ http = NoHttp
    /\ tmpFile = "none"

\* a slip: the call repeated once when it is issued
ExternalCalls_Twice(b) == IF b.request.api = "none" THEN 0 ELSE 2

\* the calls of create(...) a function makes on its way: one call site, no loop
ExternalCalls(b) == IF b.request.api = "none" THEN 0 ELSE 1

\* a function runs from its entry to its first exit or to its external call
Enter(o, l, a, b) ==
    /\ pc = "idle"
    /\ op' = o
    /\ layer' = l
    /\ args' = a
    /\ clients' = clients + b.clients
    /\ extCalls' = extCalls + ExternalCalls(b)
    /\ sent' = b.request
    /\ reply' = NoReply
    /\ outcome' = b.outcome
    /\ pc' = IF b.request.api = "none" THEN "done" ELSE "awaiting"
    /\ UNCHANGED apiKey

\* ------------------------------------------------------------------ operations

summarize_text ==
    /\ pc = "idle"
    /\ \E a \in SummarizeArgs :
            /\ Enter("summarize", "fn", a, SummarizeBegin(a, apiKey))
            /\ UNCHANGED <<http, tmpFile>>

create_summary ==
    /\ pc = "idle"
    /\ \E raw \in Texts, style \in LearningStyles, max_tokens \in {50, 300, 1000} :
            /\ SummarizeRequestValid(raw, style, max_tokens)
            /\ LET a == SummarizeRequest(raw, style, max_tokens)
                   b == SummarizeBegin(a, apiKey)
               IN  /\ Enter("summarize", "http", a, b)
                   /\ http' = IF b.request.api = "none"
                              THEN SummaryHandlerExit(a, b.outcome) ELSE NoHttp
            /\ UNCHANGED tmpFile

generate_quiz(Args) ==
    /\ pc = "idle"
    /\ \E a \in Args :
            /\ Enter("quiz", "fn", a, QuizBegin(a, apiKey))
            /\ UNCHANGED <<http, tmpFile>>

generate_quiz_questions(Args) ==
    /\ pc = "idle"
    /\ \E a \in Args :
            /\ QuizGenerationRequestValid(a)
            /\ LET b == QuizBegin(a, apiKey)
               IN  /\ Enter("quiz", "http", a, b)
                   /\ http' = IF b.request.api = "none"
                              THEN QuizHandlerExit(a, b.outcome) ELSE NoHttp
            /\ UNCHANGED tmpFile

transcribe_audio ==
    /\ pc = "idle"
    /\ \E a \in TranscribeArgs :
            /\ Enter("transcribe", "fn", a, TranscribeBegin(a, apiKey))
            /\ UNCHANGED <<http, tmpFile>>

\* the handler: its own checks, the temporary file, transcribe_audio, and the
\* finally clause when the function has already ended
\* a slip: no finally block, the file stays where it was written
Cleanup_Never(f) == {f}

\* finally: the temporary file, if written, is unlinked; an unlink that
\* raises is logged and ignored, and the file stays
Cleanup(f) == IF f = "present" THEN {"deleted", "left"} ELSE {f}

transcribe_audio_file ==
    /\ pc = "idle"
    /\ \E u \in Uploads :
            IF UploadCheck(u).status # 0
            THEN /\ Enter("transcribe", "http", u,
                          [outcome |-> NoOutcome, clients |-> 0, request |-> NoRequest])
                 /\ http' = UploadCheck(u)
                 /\ UNCHANGED tmpFile
            ELSE LET b == TranscribeBegin(TempFileArgs(u), apiKey)
                 IN  /\ Enter("transcribe", "http", u, b)
                     /\ http' = IF b.request.api = "none"
                                THEN TranscribeHandlerExit(u, b.outcome) ELSE NoHttp
                     /\ tmpFile' \in IF b.request.api = "none"
                                      THEN Cleanup("present") ELSE {"present"}

\* the external call ends: the function runs to its exit, and so does the handler
Finish(r, out, response) ==
    /\ pc = "awaiting"
    /\ reply' = r
    /\ outcome' = out
    /\ http' = IF layer = "http" THEN response ELSE NoHttp
    /\ pc' = "done"
    /\ tmpFile' \in Cleanup(tmpFile)
    /\ UNCHANGED <<apiKey, op, layer, args, sent, extCalls, clients>>

SummarizeCallEnds ==
    /\ pc = "awaiting"
    /\ op = "summarize"
    /\ \E r \in SummaryReplies :
        Finish(r, SummarizeResume(r), SummaryHandlerExit(args, SummarizeResume(r)))

QuizCallEnds(Replies) ==
    /\ pc = "awaiting"
    /\ op = "quiz"
    /\ \E r \in Replies :
        Finish(r, QuizResume(r), QuizHandlerExit(args, QuizResume(r)))

TranscribeCallEnds ==
    /\ pc = "awaiting"
    /\ op = "transcribe"
    /\ \E r \in TranscriptionReplies :
        Finish(r, TranscribeResume(r), TranscribeHandlerExit(args, TranscribeResume(r)))

\* the invocation is over; the next one starts from scratch
Respond ==
    /\ pc = "done"
    /\ pc' = "idle"
    /\ op' = "none"
    /\ layer' = "none"
    /\ args' = NoArgs
    /\ sent' = NoRequest
    /\ extCalls' = 0
    /\ clients' = 0
    /\ reply' = NoReply
    /\ outcome' = NoOutcome
    /\ http' = NoHttp
    /\ tmpFile' = "none"
    /\ UNCHANGED apiKey

Next ==
    \/ summarize_text
    \/ create_summary
    \/ generate_quiz(QuizArgs)
    \/ generate_quiz_questions(QuizArgs)
    \/ transcribe_audio
    \/ transcribe_audio_file
    \/ SummarizeCallEnds
    \/ QuizCallEnds(QuizRepliesFew)
    \/ TranscribeCallEnds
    \/ Respond

Spec == Init /\ [][Next]_vars

\* the quiz normalizer on every content of the bounds, for default requests
NextNorm ==
    \/ generate_quiz(DefaultQuizArgs)
    \/ QuizCallEnds(QuizRepliesAll)
    \/ Respond

SpecNorm == Init /\ [][NextNorm]_vars

\* ------------------------------------------------------------------ concurrent requests

\* Requests 1..MaxRequests run side by side, each in a worker of its own: here
\* pc, op, layer, args, sent, extCalls, clients, reply, outcome and http hold one
\* value for each request (the locals of its handler), tmpFile the state of
\* each temporary file by name, and apiKey is the one credential of the process.

\* a slip: one fixed path for every upload
TempName_Fixed(r) == 1

\* tempfile.NamedTemporaryFile: a name no other call is given
TempName(r) == r

InitConc ==
    /\ apiKey \in EnvValues
    /\ pc = [r \in 1..MaxRequests |-> "idle"]
    /\ op = [r \in 1..MaxRequests |-> "none"]
    /\ layer = [r \in 1..MaxRequests |-> "none"]
    /\ args = [r \in 1..MaxRequests |-> NoArgs]
    /\ sent = [r \in 1..MaxRequests |-> NoRequest]
    /\ extCalls = [r \in 1..MaxRequests |-> 0]
    /\ clients = [r \in 1..MaxRequests |-> 0]
    /\ reply = [r \in 1..MaxRequests |-> NoReply]
    /\ outcome = [r \in 1..MaxRequests |-> NoOutcome]
    /\ http = [r \in 1..MaxRequests |-> NoHttp]
    /\ tmpFile = [r \in 1..MaxRequests |-> "none"]

\* the pipeline function of request r runs from its entry to its first exit
\* (the handler then answers) or to its external call
ConcCall(r, b, response) ==
    /\ clients' = [clients EXCEPT ![r] = b.clients]
    /\ extCalls' = [extCalls EXCEPT ![r] = ExternalCalls(b)]
    /\ sent' = [sent EXCEPT ![r] = b.request]
    /\ outcome' = [outcome EXCEPT ![r] = b.outcome]
    /\ http' = [http EXCEPT ![r] = IF b.request.api = "none" THEN response ELSE NoHttp]
    /\ pc' = [pc EXCEPT ![r] = IF b.request.api = "none" THEN "done" ELSE "awaiting"]
    /\ UNCHANGED <<apiKey, reply>>

ConcCreateSummary(r) ==
    /\ pc[r] = "idle"
    /\ \E a \in {SummarizeRequest(Text(0, 10, 0), "visual", 300),
                  SummarizeRequest(Text(1, 50, 1), "reading", 50)} :
            /\ op' = [op EXCEPT ![r] = "summarize"]
            /\ layer' = [layer EXCEPT ![r] = "http"]
            /\ args' = [args EXCEPT ![r] = a]
            /\ ConcCall(r, SummarizeBegin(a, apiKey),
                        SummaryHandlerExit(a, SummarizeBegin(a, apiKey).outcome))
    /\ UNCHANGED tmpFile

ConcGenerateQuiz(r) ==
    /\ pc[r] = "idle"
    /\ \E a \in DefaultQuizArgs :
            /\ op' = [op EXCEPT ![r] = "quiz"]
            /\ layer' = [layer EXCEPT ![r] = "http"]
            /\ args' = [args EXCEPT ![r] = a]
            /\ ConcCall(r, QuizBegin(a, apiKey),
                        QuizHandlerExit(a, QuizBegin(a, apiKey).outcome))
    /\ UNCHANGED tmpFile

\* transcribe_audio_file up to the temporary file: the upload is refused, or
\* written under the name the handler was given
ConcUpload(r) ==
    /\ pc[r] = "idle"
    /\ \E u \in [filename : {Some(Lit("lecture"))}, suffix : {".mp3", ".txt"}, size : {1},
                  language : {NoneVal}, context_prompt : {NoneVal, Some(Lit("This is a biology lecture"))},
                  open : {"ok"}] :
            /\ op' = [op EXCEPT ![r] = "transcribe"]
            /\ layer' = [layer EXCEPT ![r] = "http"]
            /\ args' = [args EXCEPT ![r] = u]
            /\ pc' = [pc EXCEPT ![r] = IF UploadCheck(u).status # 0 THEN "done" ELSE "written"]
            /\ http' = [http EXCEPT ![r] = UploadCheck(u)]
            /\ tmpFile' = IF UploadCheck(u).status # 0 THEN tmpFile
                          ELSE [tmpFile EXCEPT ![TempName(r)] = "present"]
    /\ UNCHANGED <<apiKey, sent, extCalls, clients, reply, outcome>>

\* the handler calls transcribe_audio on the path of its temporary file; when
\* the function exits before the call the handler answers and cleans up
ConcTranscribe(r) ==
    /\ pc[r] = "written"
    /\ LET a == [TempFileArgs(args[r]) EXCEPT !.exists = (tmpFile[TempName(r)] = "present")]
           b == TranscribeBegin(a, apiKey)
       IN  /\ ConcCall(r, b, TranscribeHandlerExit(args[r], b.outcome))
           /\ \E c \in IF b.request.api = "none"
                        THEN Cleanup(tmpFile[TempName(r)]) ELSE {tmpFile[TempName(r)]} :
                  tmpFile' = [tmpFile EXCEPT ![TempName(r)] = c]
    /\ UNCHANGED <<op, layer, args>>

\* the external call of request r ends: its function and its handler run to
\* their exit
ConcCallEnds(r) ==
    /\ pc[r] = "awaiting"
    /\ \E rep \in CASE op[r] = "summarize" ->
                        {Raises(Lit("connection reset")), TextReply(Lit("Summary text"))}
                  [] op[r] = "quiz" ->
                        {TextReply(<<DocTok(ListDoc(<<GoodElem>>))>>), TextReply(<<Tok("x")>>)}
                  [] op[r] = "transcribe" ->
                        {Raises(Lit("API ") \o Lit("rate limit")), TextReply(Lit("Summary text"))} :
          LET out == CASE op[r] = "summarize" -> SummarizeResume(rep)
                       [] op[r] = "quiz" -> QuizResume(rep)
                       [] op[r] = "transcribe" -> TranscribeResume(rep)
          IN  /\ reply' = [reply EXCEPT ![r] = rep]
              /\ outcome' = [outcome EXCEPT ![r] = out]
              /\ http' = [http EXCEPT ![r] =
                            CASE op[r] = "summarize" -> SummaryHandlerExit(args[r], out)
                              [] op[r] = "quiz" -> QuizHandlerExit(args[r], out)
                              [] op[r] = "transcribe" -> TranscribeHandlerExit(args[r], out)]
    /\ pc' = [pc EXCEPT ![r] = "done"]
    /\ \E c \in IF op[r] = "transcribe"
                 THEN Cleanup(tmpFile[TempName(r)]) ELSE {tmpFile[TempName(r)]} :
          tmpFile' = [tmpFile EXCEPT ![TempName(r)] = c]
    /\ UNCHANGED <<apiKey, op, layer, args, sent, extCalls, clients>>

\* the answer of request r is out; its worker takes the next request
ConcRespond(r) ==
    /\ pc[r] = "done"
    /\ pc' = [pc EXCEPT ![r] = "idle"]
    /\ op' = [op EXCEPT ![r] = "none"]
    /\ layer' = [layer EXCEPT ![r] = "none"]
    /\ args' = [args EXCEPT ![r] = NoArgs]
    /\ sent' = [sent EXCEPT ![r] = NoRequest]
    /\ extCalls' = [extCalls EXCEPT ![r] = 0]
    /\ clients' = [clients EXCEPT ![r] = 0]
    /\ reply' = [reply EXCEPT ![r] = NoReply]
    /\ outcome' = [outcome EXCEPT ![r] = NoOutcome]
    /\ http' = [http EXCEPT ![r] = NoHttp]
    /\ UNCHANGED <<apiKey, tmpFile>>

NextConc ==
    \E r \in 1..MaxRequests :
        \/ ConcCreateSummary(r)
        \/ ConcGenerateQuiz(r)
        \/ ConcUpload(r)
        \/ ConcTranscribe(r)
        \/ ConcCallEnds(r)
        \/ ConcRespond(r)

SpecConc == InitConc /\ [][NextConc]_vars

\* ------------------------------------------------------------------ properties

\* every character of the text is a blank (the empty text included)
AllBlank(text) == \A i \in 1..Len(text) : text[i].s \in Whitespace

Active == pc \in {"awaiting", "done"}

\* the text argument of the two text operations
ArgText == IF op = "summarize" THEN args.input_text ELSE args.text

KeyConfigured == apiKey.set /\ apiKey.val # ""

\* the pipeline function was entered (the transcribe handler may refuse before)
FunctionCalled ==
    Active /\ ~(op = "transcribe" /\ layer = "http" /\ UploadCheck(args).status # 0)

\* the arguments the pipeline function was called with
FnArgs == IF op = "transcribe" /\ layer = "http" THEN TempFileArgs(args) ELSE args

\* the extensions among the inputs that are a supported format in some case
SupportedAnyCase ==
    {".mp3", ".mp4", ".mpeg", ".mpga", ".m4a", ".wav", ".webm", ".MP3", ".Wav"}

\* the input is within the documented limits of its operation
InputPasses ==
    CASE op = "summarize" ->
            ~AllBlank(args.input_text) /\ StrLen(args.input_text) <= 10000
      [] op = "quiz" ->
            /\ ~AllBlank(args.text) /\ StrLen(args.text) <= 8000
            /\ args.num_questions \in 1..10
      [] op = "transcribe" ->
            /\ FnArgs.exists
            /\ FnArgs.suffix \in SupportedAnyCase
            /\ 0 < FnArgs.size /\ FnArgs.size <= 26214400

NoExternalCall == extCalls = 0 /\ sent = NoRequest

\* C1: a text that is empty or only whitespace makes summarize_text and
\* generate_quiz raise ValueError "Input text cannot be empty", with no client
\* built and no external call, whatever the other arguments and the credential.
C1_BlankTextRejected ==
    (Active /\ op \in {"summarize", "quiz"} /\ AllBlank(ArgText))
        => /\ pc = "done"
           /\ outcome = Raise("ValueError", Lit("Input text cannot be empty"))
           /\ clients = 0
           /\ NoExternalCall

C1_Witness ==
    /\ pc = "done" /\ op = "quiz" /\ layer = "fn"
    /\ args.text = Rep(" ", 50) /\ args.num_questions = 11
    /\ KeyConfigured
    /\ outcome.kind = "raise" /\ outcome.exc = "ValueError"
    /\ clients = 0 /\ extCalls = 0

\* C2: generate_quiz with num_questions outside 1..10 raises ValueError and
\* issues no external call, the message being "Number of questions must be
\* between 1 and 10" (on a non-blank text: the blank-text check of C1 comes
\* first); with num_questions in 1..10 and otherwise valid input the one
\* external call carries "Create <n> multiple-choice questions" with that n.
C2_QuestionCount ==
    (Active /\ op = "quiz")
        => /\ args.num_questions \notin 1..10
              => /\ pc = "done"
                 /\ outcome.kind = "raise" /\ outcome.exc = "ValueError"
                 /\ NoExternalCall
                 /\ ~AllBlank(args.text)
                      => outcome.msg = Lit("Number of questions must be between 1 and 10")
           /\ (InputPasses /\ KeyConfigured)
              => /\ extCalls = 1
                 /\ sent.api = "chat.completions"
                 /\ \A n \in 1..10 :
                      Contains(sent.system,
                               Lit("Create ") \o Lit(ToString(n))
                               \o Lit(" multiple-choice questions from the given text."))
                      <=> n = args.num_questions

C2_Witness ==
    /\ pc = "awaiting" /\ op = "quiz" /\ args.num_questions = 10
    /\ extCalls = 1
    /\ Contains(sent.system, Lit("Create ") \o Lit("10"))

\* C3: a text longer than the limit (10,000 characters for summarize_text,
\* 8,000 for generate_quiz) is rejected with ValueError before any external
\* call; a non-blank text of exactly the limit is accepted and goes to the
\* external call (the other arguments valid, the credential configured).
C3_LengthCeiling ==
    (Active /\ op \in {"summarize", "quiz"})
        => LET limit == IF op = "summarize" THEN 10000 ELSE 8000
           IN  /\ StrLen(ArgText) > limit
                  => /\ pc = "done"
                     /\ outcome.kind = "raise" /\ outcome.exc = "ValueError"
                     /\ NoExternalCall
               /\ (/\ StrLen(ArgText) = limit /\ ~AllBlank(ArgText)
                   /\ (op = "quiz" => args.num_questions \in 1..10)
                   /\ KeyConfigured)
                  => /\ extCalls = 1
                     /\ sent.api = "chat.completions"

C3_Witness ==
    /\ pc = "awaiting" /\ op = "summarize"
    /\ StrLen(args.input_text) = 10000
    /\ extCalls = 1

ParsedList ==
    /\ pc = "done" /\ op = "quiz" /\ reply.kind = "text"
    /\ Len(CleanContent(reply.body)) = 1
    /\ CleanContent(reply.body)[1].ch = "<json>"
    /\ CleanContent(reply.body)[1].doc.top = "list"

ParsedElems == CleanContent(reply.body)[1].doc.elems

LacksField(q) == q.kind # "object" \/ ~(RequiredSet \subseteq q.keys)

WrongOptionCount(q) ==
    q.kind = "object" /\ "options" \in q.keys /\ q.optkind = "list" /\ q.nopts # 4

WrongAnswer(q) ==
    q.kind = "object" /\ "correct_answer" \in q.keys /\ q.answer \notin {"A", "B", "C", "D"}

Offending(q) == LacksField(q) \/ WrongOptionCount(q) \/ WrongAnswer(q)

\* the 1-based index of the first offending element, 0 when there is none
FirstOffending(qs) ==
    IF \E i \in 1..Len(qs) : Offending(qs[i])
    THEN CHOOSE i \in 1..Len(qs) : Offending(qs[i]) /\ \A j \in 1..(i - 1) : ~Offending(qs[j])
    ELSE 0

\* what the message says after "Question <i>", by the order of the checks
ComplaintOf(q) ==
    IF LacksField(q) THEN " missing fields: "
    ELSE IF WrongOptionCount(q) THEN " must have exactly 4 options"
    ELSE " correct_answer must be A, B, C, or D"

\* C5: when the content parses to a list with an element that lacks one of
\* question/options/correct_answer/explanation, or whose options do not count
\* 4, or whose correct_answer is not A, B, C or D, generate_quiz fails and the
\* message names the first such element by its 1-based index, "Question <i>",
\* with the complaint chosen in the order fields, option count, answer letter.
C5_ElementIndexNamed ==
    (ParsedList /\ FirstOffending(ParsedElems) # 0)
        => /\ outcome.kind = "raise"
           /\ Contains(outcome.msg,
                       Lit("Question ") \o Lit(ToString(FirstOffending(ParsedElems)))
                       \o Lit(ComplaintOf(ParsedElems[FirstOffending(ParsedElems)])))

\* C6: when an element of the parsed list has all its fields and an options
\* list that does not count 4, generate_quiz raises a ValueError whose message
\* says the question "must have exactly 4 options".
C6_ValueErrorForOptions ==
    (/\ ParsedList /\ FirstOffending(ParsedElems) # 0
     /\ ~LacksField(ParsedElems[FirstOffending(ParsedElems)])
     /\ WrongOptionCount(ParsedElems[FirstOffending(ParsedElems)])
     /\ \A j \in 1..(FirstOffending(ParsedElems) - 1) :
            ParsedElems[j].optkind = "list")
        => /\ outcome.kind = "raise"
           /\ outcome.exc = "ValueError"
           /\ Contains(outcome.msg, Lit(" must have exactly 4 options"))

\* C7 as stated: for every payload P the outcome on P wrapped in the fence
\* markers equals the outcome on P.
C7_FenceRoundTripAnyPayload ==
    (pc = "done" /\ op = "quiz" /\ reply.kind = "text")
        => QuizResume(TextReply(Fenced(reply.body))) = outcome

\* C7 amended: for every non-empty payload P whose trimmed text neither starts
\* with the opening marker nor ends with the closing marker, the outcome on P
\* wrapped in the fence markers equals the outcome on P (the same list, or the
\* same failure).
C7_FenceRoundTrip ==
    (/\ pc = "done" /\ op = "quiz" /\ reply.kind = "text"
     /\ reply.body # <<>>
     /\ ~StartsWith(StripTok(reply.body), FenceOpen)
     /\ ~EndsWith(StripTok(reply.body), FenceClose))
        => QuizResume(TextReply(Fenced(reply.body))) = outcome

C7_Witness ==
    /\ pc = "done" /\ op = "quiz"
    /\ reply.kind = "text"
    /\ reply.body = <<Tok("\n"), DocTok(ListDoc(<<GoodElem>>)), Tok("\n")>>
    /\ outcome = Return(<<GoodElem>>)
    /\ QuizResume(TextReply(Fenced(reply.body))) = Return(<<GoodElem>>)

\* --- all three operations (checked under Spec)

\* C8 as stated: at most one external call per invocation; exactly one if and
\* only if the input passed validation and the credential is configured; none
\* after a failed call.
C8_OneCallIffValidAndKey ==
    FunctionCalled
        => /\ extCalls <= 1
           /\ extCalls = 1 <=> (InputPasses /\ KeyConfigured)
           /\ (pc = "done" /\ reply.kind = "raises") => extCalls = 1

\* C8 amended: at most one external call per invocation; exactly one if and
\* only if the input passed validation, the credential is configured and, for
\* transcribe_audio, the audio file could be opened; after a failed call no
\* second call is issued before the invocation ends.
C8_OneCall ==
    FunctionCalled
        => /\ extCalls <= 1
           /\ extCalls = 1 <=> (/\ InputPasses /\ KeyConfigured
                                /\ op = "transcribe" => FnArgs.open = "ok")
           /\ (pc = "done" /\ reply.kind = "raises") => extCalls = 1

C8_Witness ==
    /\ pc = "done" /\ op = "transcribe" /\ layer = "fn"
    /\ reply.kind = "raises"
    /\ outcome.kind = "raise" /\ outcome.exc = "RuntimeError"
    /\ extCalls = 1

\* C9: without the credential (unset or empty) each of the three functions,
\* called with input that passes validation, raises the configuration error
\* "OPENAI_API_KEY environment variable is not set" before any external call;
\* none returns a value, summarize_text's apology included.
C9_MissingKeyFailsFast ==
    (FunctionCalled /\ InputPasses /\ ~KeyConfigured)
        => /\ pc = "done"
           /\ outcome = Raise("ValueError",
                              Lit("OPENAI_API_KEY environment variable is not set"))
           /\ clients = 0
           /\ NoExternalCall

C9_Witness ==
    /\ pc = "done" /\ op = "summarize" /\ layer = "fn"
    /\ apiKey = EnvVal("")
    /\ args.input_text = Text(0, 10, 0)
    /\ outcome.kind = "raise"
    /\ extCalls = 0

\* the request parameters of the client are invalid
ClientFault ==
    CASE op = "summarize" -> AllBlank(args.input_text) \/ StrLen(args.input_text) > 10000
      [] op = "quiz" ->
            \/ AllBlank(args.text) \/ StrLen(args.text) > 8000
            \/ args.num_questions \notin 1..10
      [] op = "transcribe" ->
            \/ ~Truthy(args.filename)
            \/ args.suffix \notin SupportedAnyCase
            \/ args.size = 0 \/ args.size > 26214400

\* C10: an endpoint answers 400 only when the client's own request parameters
\* are invalid: a missing credential, a provider failure or provider output of
\* the wrong shape never gives 400.
C10_BadRequestOnlyForClientFault ==
    (pc = "done" /\ layer = "http" /\ http.status = 400) => ClientFault

\* what the client of an endpoint is given: the summary, the questions or the
\* transcription of a success response, the detail of an error response
Delivered ==
    IF http.status # 200 THEN http.detail
    ELSE IF op = "summarize" THEN http.summary
    ELSE IF op = "transcribe" THEN http.transcription
    ELSE <<>>

\* C11: the text of an exception raised by the provider never reaches the
\* client of an endpoint: what summarize, quiz-generate and transcribe deliver
\* does not contain it, for transcribe also when the text holds none of
\* "rate limit", "quota", "invalid".
C11_NoProviderTextDelivered ==
    (pc = "done" /\ layer = "http" /\ reply.kind = "raises")
        => ~Contains(Delivered, reply.text)

\* the first words of the messages the three functions reject their input with
InputRejections ==
    {"Input text cannot be empty", "Input text too long (max 10,000 characters)",
     "Number of questions must be between 1 and 10",
     "Text too long for quiz generation (max 8000 characters)",
     "Unsupported audio format: ", "Audio file too large: ", "Audio file is empty"}

\* the function has rejected its input with a ValueError
InputRejected ==
    /\ pc = "done" /\ outcome.kind = "raise" /\ outcome.exc = "ValueError"
    /\ Head(outcome.msg).s \in InputRejections

\* the answer of the operation's endpoint when its function ends with out
EndpointAnswer(out) ==
    CASE op = "summarize" -> SummaryHandlerExit(args, out)
      [] op = "quiz" -> QuizHandlerExit(args, out)
      [] op = "transcribe" -> TranscribeHandlerExit(args, out)

\* C12: when summarize_text, generate_quiz or transcribe_audio rejects its
\* input with a ValueError (empty text, text too long, count out of range,
\* unsupported format, audio too large, empty audio), the endpoint of the
\* operation answers 400 and the detail is the error's message, unchanged.
C12_RejectionIsBadRequest ==
    InputRejected
        => /\ EndpointAnswer(outcome) = HTTPException(400, outcome.msg)
           /\ layer = "http" => http = HTTPException(400, outcome.msg)

C12_Witness ==
    /\ pc = "done" /\ layer = "http" /\ op = "quiz"
    /\ outcome = Raise("ValueError", Lit("Input text cannot be empty"))
    /\ http = HTTPException(400, Lit("Input text cannot be empty"))

\* C13: at the quiz-generate endpoint every failure of generate_quiz after the
\* external call was issued (provider exception, empty content, JSON that
\* does not parse, a top-level value that is no list, an element of the wrong
\* shape) is answered 500 with the one detail "Unable to generate quiz
\* questions. Please try again.".
C13_QuizFailureIsGeneric500 ==
    (/\ pc = "done" /\ layer = "http" /\ op = "quiz"
     /\ extCalls = 1 /\ outcome.kind = "raise")
        => http = HTTPException(500,
                                Lit("Unable to generate quiz questions. Please try again."))

C13_Witness ==
    /\ pc = "done" /\ layer = "http" /\ op = "quiz"
    /\ reply.kind = "text" /\ outcome.kind = "raise"
    /\ Contains(outcome.msg, Lit("Question ") \o Lit("1") \o Lit(" must have exactly 4 options"))
    /\ http.status = 500

\* C14: every exit of create_summary, generate_quiz_questions and
\* transcribe_audio_file is a success response, an HTTPException 400 (413 for
\* an upload over the size limit) or an HTTPException 500, whatever the
\* function raised; nothing else leaves a handler.
C14_HandlerExits ==
    (pc = "done" /\ layer = "http")
        => /\ http.status \in {200, 400, 413, 500}
           /\ http.status = 200 => outcome.kind = "return"
           /\ http.status # 200 => "detail" \in DOMAIN http
           /\ http.status = 413 => (op = "transcribe" /\ args.size > 26214400)

C14_Witness ==
    /\ pc = "done" /\ layer = "http" /\ op = "transcribe"
    /\ outcome.kind = "raise" /\ outcome.exc = "FileNotFoundError"
    /\ http.status = 500

Trimmed(b, v) ==
    /\ v # <<>> /\ v[1].s \notin Whitespace /\ v[Len(v)].s \notin Whitespace
    /\ \E i, j \in 0..Len(b) :
          /\ i <= j
          /\ AllBlank(SubSeq(b, 1, i)) /\ AllBlank(SubSeq(b, j + 1, Len(b)))
          /\ SubSeq(b, i + 1, j) = v

\* C16: when the speech-to-text call returns a text that is empty once
\* trimmed (of length zero, or only whitespace), transcribe_audio returns
\* exactly "No speech detected in the audio file." and does not raise;
\* otherwise it returns the text without its leading and trailing whitespace.
C16_EmptyTranscription ==
    (pc = "done" /\ op = "transcribe" /\ reply.kind = "text")
        => /\ outcome.kind = "return"
           /\ AllBlank(reply.body)
                => outcome.value = Lit("No speech detected in the audio file.")
           /\ ~AllBlank(reply.body) => Trimmed(reply.body, outcome.value)

C16_Witness ==
    /\ pc = "done" /\ op = "transcribe" /\ layer = "fn"
    /\ reply = TextReply(Rep(" ", 1) \o Rep("\n", 1))
    /\ outcome = Return(Lit("No speech detected in the audio file."))

\* transcribe_audio has refused the file for its format
FormatRejected ==
    /\ outcome.kind = "raise" /\ outcome.exc = "ValueError"
    /\ Head(outcome.msg).s = "Unsupported audio format: "

\* C17: the format check reads only the lower-cased extension: an existing
\* file passes it if and only if its extension is, in any case, one of mp3,
\* mp4, mpeg, mpga, m4a, wav, webm (".MP3" and ".mp3" both pass); any other
\* extension is rejected with ValueError "Unsupported audio format", before
\* any external call.
C17_FormatByLoweredExtension ==
    (FunctionCalled /\ op = "transcribe")
        => /\ FormatRejected <=> (FnArgs.exists /\ FnArgs.suffix \notin SupportedAnyCase)
           /\ FormatRejected => (pc = "done" /\ clients = 0 /\ NoExternalCall)
           /\ (/\ FnArgs.exists /\ FnArgs.suffix \in {".mp3", ".MP3"}
               /\ 0 < FnArgs.size /\ FnArgs.size <= 26214400
               /\ KeyConfigured /\ FnArgs.open = "ok")
              => extCalls = 1

C17_Witness ==
    /\ pc = "awaiting" /\ op = "transcribe" /\ layer = "fn"
    /\ args.suffix = ".MP3"
    /\ extCalls = 1

\* C18: transcribe_audio issues the external call only for a file that
\* exists, has a supported extension and a size s with 0 < s <= 25*1024*1024:
\* a missing file raises FileNotFoundError, a size over the limit ValueError
\* "Audio file too large", a size of 0 ValueError "Audio file is empty", a
\* file of exactly 25*1024*1024 bytes is accepted; the checks come in the
\* order existence, extension, size.
C18_AudioChecks ==
    (FunctionCalled /\ op = "transcribe")
        => LET a == FnArgs
               supported == a.suffix \in SupportedAnyCase
           IN  /\ extCalls = 1
                    => (a.exists /\ supported /\ 0 < a.size /\ a.size <= 25 * 1024 * 1024)
               /\ ~a.exists
                    => (outcome.kind = "raise" /\ outcome.exc = "FileNotFoundError")
               /\ (a.exists /\ ~supported) => FormatRejected
               /\ (a.exists /\ supported /\ a.size > 25 * 1024 * 1024)
                    => /\ outcome.kind = "raise" /\ outcome.exc = "ValueError"
                       /\ Head(outcome.msg).s = "Audio file too large: "
               /\ (a.exists /\ supported /\ a.size = 0)
                    => outcome = Raise("ValueError", Lit("Audio file is empty"))
               /\ (/\ a.exists /\ supported /\ a.size = 25 * 1024 * 1024
                   /\ KeyConfigured /\ a.open = "ok")
                    => extCalls = 1

C18_Witness ==
    /\ pc = "awaiting" /\ op = "transcribe" /\ layer = "fn"
    /\ args.size = 25 * 1024 * 1024
    /\ extCalls = 1

\* C19: a missing audio file is told apart from a processing error:
\* transcribe_audio raises FileNotFoundError for a path that does not exist,
\* and lets a FileNotFoundError of the open (or of the call) through as it
\* is, unclassified; the endpoint answers it with the detail "File processing
\* error", which no other error path gives.
C19_MissingFileDistinct ==
    /\ (FunctionCalled /\ op = "transcribe")
        => /\ ~FnArgs.exists
                => /\ outcome = Raise("FileNotFoundError",
                                       Lit("Audio file not found: ") \o Lit("<path>"))
                   /\ NoExternalCall
           /\ (InputPasses /\ KeyConfigured /\ FnArgs.open = "FileNotFoundError")
                => outcome = Raise("FileNotFoundError",
                                   Lit("[Errno 2] No such file or directory: ")
                                   \o Lit("<path>"))
           /\ (pc = "done" /\ reply.kind = "raises" /\ reply.exc = "FileNotFoundError")
                => outcome = Raise("FileNotFoundError", reply.text)
    /\ (pc = "done" /\ op = "transcribe" /\ layer = "http" /\ http.status # 200)
        => (http.detail = Lit("File processing error")
              <=> (outcome.kind = "raise" /\ outcome.exc = "FileNotFoundError"))

C19_Witness ==
    /\ pc = "done" /\ op = "transcribe" /\ layer = "http"
    /\ args.open = "FileNotFoundError"
    /\ outcome.kind = "raise" /\ outcome.exc = "FileNotFoundError"
    /\ http = HTTPException(500, Lit("File processing error"))

\* the text holds the word w in some case
Mentions(text, w) == \E i \in 1..Len(text) : LowerWord(text[i].s) = w

\* C20: an exception of the transcription call that is no FileNotFoundError
\* becomes a RuntimeError whose message is chosen from the provider's text,
\* case-insensitively, by the first rule that matches: "rate limit" -> busy;
\* else "quota" -> quota exceeded; else "invalid" -> format not supported;
\* else "Transcription failed: " followed by the text.
C20_ErrorClassification ==
    (/\ pc = "done" /\ op = "transcribe"
     /\ reply.kind = "raises" /\ reply.exc # "FileNotFoundError")
        => LET rate == Mentions(reply.text, "rate limit")
               quota == Mentions(reply.text, "quota")
               invalid == Mentions(reply.text, "invalid")
           IN  /\ outcome.kind = "raise" /\ outcome.exc = "RuntimeError"
               /\ rate => outcome.msg =
                      Lit("Transcription service is busy. Please try again in a moment.")
               /\ (~rate /\ quota) => outcome.msg =
                      Lit("Transcription quota exceeded. Please contact support.")
               /\ (~rate /\ ~quota /\ invalid) => outcome.msg =
                      Lit("Audio file format not supported or corrupted.")
               /\ (~rate /\ ~quota /\ ~invalid) => outcome.msg =
                      Lit("Transcription failed: ") \o reply.text

C20_Witness ==
    /\ pc = "done" /\ op = "transcribe" /\ layer = "fn"
    /\ reply.kind = "raises"
    /\ reply.text = Lit("Rate Limit") \o Lit(" and ") \o Lit("quota")
    /\ outcome = Raise("RuntimeError",
                        Lit("Transcription service is busy. Please try again in a moment."))

\* --- parameters and prompts

\* C21: summarize_text with max_tokens outside 50..1000 (10, 5000) fails as an
\* input error and issues no external call; only values in 50..1000 reach the
\* provider as max_tokens.
C21_MaxTokensRange ==
    (Active /\ op = "summarize")
        => /\ args.max_tokens \notin 50..1000
                => /\ pc = "done"
                   /\ outcome.kind = "raise" /\ outcome.exc = "ValueError"
                   /\ NoExternalCall
           /\ extCalls = 1 => sent.max_tokens \in 50..1000

\* the value a style or difficulty argument stands for
StyleUsed(style) == IF style \in LearningStyles THEN style ELSE "reading"

DifficultyUsed(d) == IF d \in DifficultyLevels THEN d ELSE "high_school"

C23_ReturnedListValid ==
    (pc = "done" /\ op = "quiz" /\ outcome.kind = "return")
        => /\ ParsedList
           /\ outcome.value = ParsedElems
           /\ Len(outcome.value) = Len(ParsedElems)
           /\ \A i \in 1..Len(outcome.value) :
                 LET q == outcome.value[i]
                 IN  /\ q.kind = "object"
                     /\ {"question", "options", "correct_answer", "explanation"}
                            \subseteq q.keys
                     /\ q.nopts = 4
                     /\ q.answer \in {"A", "B", "C", "D"}

C23_Witness ==
    /\ pc = "done" /\ op = "quiz"
    /\ reply.kind = "text"
    /\ outcome = Return(<<Obj(RequiredSet, 4, "A"), GoodElem>>)

\* --- provider content that is no quiz

\* the cleaned content is one JSON text
Parseable(body) ==
    Len(CleanContent(body)) = 1 /\ CleanContent(body)[1].ch = "<json>"

\* C25: generate_quiz returns nothing when the provider's content is empty
\* or None, does not parse as JSON once the fences are cut, or parses to a
\* value that is no list: each raises RuntimeError, the unparseable text with
\* 'Failed to generate properly formatted quiz questions'; an exception of
\* the provider call raises RuntimeError 'Unable to generate quiz: ' and its text.
C25_NoQuizNoResult ==
    (pc = "done" /\ op = "quiz" /\ extCalls = 1)
        => /\ (reply.kind = "none" \/ (reply.kind = "text" /\ reply.body = <<>>))
                => outcome.kind = "raise" /\ outcome.exc = "RuntimeError"
           /\ (reply.kind = "text" /\ reply.body # <<>> /\ ~Parseable(reply.body))
                => outcome = Raise("RuntimeError",
                        Lit("Failed to generate properly formatted quiz questions"))
           /\ (reply.kind = "text" /\ Parseable(reply.body)
                    /\ CleanContent(reply.body)[1].doc.top # "list")
                => outcome.kind = "raise" /\ outcome.exc = "RuntimeError"
           /\ reply.kind = "raises"
                => outcome = Raise("RuntimeError",
                        Lit("Unable to generate quiz: ") \o reply.text)

C25_Witness ==
    /\ pc = "done" /\ op = "quiz" /\ extCalls = 1
    /\ reply = TextReply(<<DocTok(ObjectDoc)>>)
    /\ outcome = Raise("RuntimeError",
            Lit("Unable to generate quiz: ")
            \o Lit("Quiz response must be a list of questions"))

\* --- the user content message

\* the fixed lead-in of an operation's user message
LeadIn ==
    IF op = "summarize" THEN Lit("Summarize this text for studying:\n\n")
    ELSE Lit("Generate quiz questions from this content:\n\n")

\* C27: in summarize_text and in generate_quiz alike the user message sent to
\* the provider is the fixed lead-in followed by the caller's text without its
\* leading and trailing whitespace, otherwise unchanged.
C27_UserContentTrimmed ==
    (Active /\ op \in {"summarize", "quiz"} /\ layer = "fn" /\ extCalls = 1)
        => \E v \in {SubSeq(ArgText, i, j) : i, j \in 1..Len(ArgText)} :
              /\ Trimmed(ArgText, v)
              /\ sent.user = LeadIn \o v

\* --- the transcription request

\* C28: the transcription request always carries a context prompt: the
\* caller's prompt as given, or the fixed default academic-context text when
\* the caller gave None or an empty string; a language is in the request only
\* when the caller gave one; the model is whisper-1 and the response format text.
C28_TranscriptionRequest ==
    (Active /\ op = "transcribe" /\ extCalls = 1)
        => /\ sent.api = "audio.transcriptions"
           /\ sent.model = "whisper-1"
           /\ sent.response_format = "text"
           /\ sent.prompt # <<>>
           /\ (FnArgs.prompt.isnone \/ FnArgs.prompt.str = <<>>)
                => sent.prompt = Lit("This is educational content about academic subjects. Please transcribe with attention to technical and academic vocabulary.")
           /\ (~FnArgs.prompt.isnone /\ FnArgs.prompt.str # <<>>)
                => sent.prompt = FnArgs.prompt.str
           /\ FnArgs.language.isnone => sent.language = NoneVal
           /\ ~FnArgs.language.isnone => sent.language = FnArgs.language

C28_Witness ==
    /\ pc = "awaiting" /\ op = "transcribe" /\ extCalls = 1
    /\ FnArgs.prompt = Some(<<>>)
    /\ FnArgs.language = Some(Lit("en"))
    /\ sent.prompt = DefaultTranscriptionPrompt
    /\ sent.language = Some(Lit("en"))

\* --- one fence marker only

\* C29: the two fence markers are cut independently and only in their exact
\* forms: for a payload P that carries no marker of its own, P behind the
\* opening marker alone and P before the closing marker alone are cleaned to
\* the same text as P, and give the same outcome; P opened by the three
\* backticks without the word json is not unfenced and fails as unparseable,
\* as does every content that starts so.
C29_MarkersIndependent ==
    (pc = "done" /\ op = "quiz" /\ reply.kind = "text")
        => LET P == reply.body
               openOnly == FenceOpen \o <<Tok("\n")>> \o P
               closeOnly == P \o <<Tok("\n")>> \o FenceClose
               bareOpened == FenceClose \o <<Tok("\n")>> \o P \o <<Tok("\n")>> \o FenceClose
               failed == Raise("RuntimeError",
                               Lit("Failed to generate properly formatted quiz questions"))
           IN  /\ (~StartsWith(StripTok(P), FenceOpen) /\ ~EndsWith(StripTok(P), FenceClose))
                    => /\ CleanContent(openOnly) = CleanContent(P)
                       /\ CleanContent(closeOnly) = CleanContent(P)
                       /\ P # <<>> => /\ QuizResume(TextReply(openOnly)) = outcome
                                      /\ QuizResume(TextReply(closeOnly)) = outcome
                       /\ QuizResume(TextReply(bareOpened)) = failed
               /\ (StartsWith(StripTok(P), FenceClose) /\ ~StartsWith(StripTok(P), FenceOpen))
                    => outcome = failed

C29_Witness ==
    /\ pc = "done" /\ op = "quiz"
    /\ reply.kind = "text"
    /\ reply.body = <<DocTok(ListDoc(<<GoodElem>>)), Tok("\n")>>
    /\ outcome = Return(<<GoodElem>>)
    /\ QuizResume(TextReply(FenceOpen \o <<Tok("\n")>> \o reply.body)) = Return(<<GoodElem>>)
    /\ QuizResume(TextReply(reply.body \o <<Tok("\n")>> \o FenceClose)) = Return(<<GoodElem>>)
    /\ QuizResume(TextReply(FenceClose \o <<Tok("\n")>> \o reply.body
                             \o <<Tok("\n")>> \o FenceClose)).kind = "raise"

\* --- the endpoint's checks and the function's checks

\* the upload has a filename
Named(u) == ~u.filename.isnone /\ u.filename.str # <<>>

\* the handler answered before the temporary file and before transcribe_audio
RefusedAtUpload ==
    /\ pc = "done" /\ outcome = NoOutcome
    /\ clients = 0 /\ NoExternalCall
    /\ tmpFile = "none"

\* transcribe_audio's own format, size and emptiness errors
FunctionCheckErrors ==
    {"Unsupported audio format: ", "Audio file too large: ", "Audio file is empty"}

\* C30 as stated: an oversized upload is always answered 413, an unsupported
\* extension, a missing filename or an empty upload 400, each without calling
\* transcribe_audio; an upload that passes the endpoint's checks gives a
\* temporary file that passes transcribe_audio's existence, extension and
\* size checks, so none of its three check errors occurs through the endpoint.
C30_UploadChecksSubsumeAnyOrder ==
    (Active /\ op = "transcribe" /\ layer = "http")
        => /\ args.size > 25 * 1024 * 1024 => (http.status = 413 /\ RefusedAtUpload)
           /\ (~Named(args) \/ args.suffix \notin SupportedAnyCase \/ args.size = 0)
                => (http.status = 400 /\ RefusedAtUpload)
           /\ (/\ Named(args) /\ args.suffix \in SupportedAnyCase
               /\ 0 < args.size /\ args.size <= 25 * 1024 * 1024)
                => /\ FnArgs.exists
                   /\ FnArgs.suffix \in {".mp3", ".mp4", ".mpeg", ".mpga", ".m4a", ".wav", ".webm"}
                   /\ FnArgs.size = args.size
                   /\ outcome.kind = "raise" => Head(outcome.msg).s \notin FunctionCheckErrors

\* C30 amended: the endpoint checks filename, extension, size and emptiness
\* in that order: an oversized upload that has a filename and a supported
\* extension is answered 413; an upload without filename, with an unsupported
\* extension, or empty is answered 400 (also when it is oversized); each
\* without calling transcribe_audio. An upload that passes gives a temporary
\* file that passes transcribe_audio's existence, extension and size checks,
\* so none of its three check errors occurs through the endpoint.
C30_UploadChecksSubsume ==
    (Active /\ op = "transcribe" /\ layer = "http")
        => /\ (Named(args) /\ args.suffix \in SupportedAnyCase /\ args.size > 25 * 1024 * 1024)
                => (http.status = 413 /\ RefusedAtUpload)
           /\ (~Named(args) \/ args.suffix \notin SupportedAnyCase \/ args.size = 0)
                => (http.status = 400 /\ RefusedAtUpload)
           /\ (/\ Named(args) /\ args.suffix \in SupportedAnyCase
               /\ 0 < args.size /\ args.size <= 25 * 1024 * 1024)
                => /\ FnArgs.exists
                   /\ FnArgs.suffix \in {".mp3", ".mp4", ".mpeg", ".mpga", ".m4a", ".wav", ".webm"}
                   /\ FnArgs.size = args.size
                   /\ outcome.kind = "raise" => Head(outcome.msg).s \notin FunctionCheckErrors

C30_Witness ==
    /\ pc = "done" /\ op = "transcribe" /\ layer = "http"
    /\ Named(args) /\ args.suffix = ".MP3" /\ args.size = 25 * 1024 * 1024
    /\ reply.kind = "text"
    /\ http.status = 200

\* --- the temporary file

\* the upload passes the handler's four checks
UploadPasses(u) ==
    /\ Named(u) /\ u.suffix \in SupportedAnyCase
    /\ 0 < u.size /\ u.size <= 25 * 1024 * 1024

\* C26 as stated: the transcribe endpoint leaves no temporary file behind:
\* once the upload is written to a temporary file, that file is deleted
\* before the handler finishes, on every exit path; when an upload check
\* fails no temporary file is created and transcribe_audio is not called.
C26_TempFileAlwaysDeleted ==
    (Active /\ op = "transcribe" /\ layer = "http")
        => /\ (UploadPasses(args) /\ pc = "awaiting") => tmpFile = "present"
           /\ (UploadPasses(args) /\ pc = "done") => tmpFile = "deleted"
           /\ ~UploadPasses(args) => RefusedAtUpload

\* C26 amended: once the upload is written to a temporary file, the handler
\* tries to delete that file on every exit path before it finishes; the file
\* is gone unless the deletion itself fails, which is ignored and changes
\* nothing in the answer; when an upload check fails no temporary file is
\* created and transcribe_audio is not called.
C26_TempFileCleanupTried ==
    (Active /\ op = "transcribe" /\ layer = "http")
        => /\ (UploadPasses(args) /\ pc = "awaiting") => tmpFile = "present"
           /\ (UploadPasses(args) /\ pc = "done")
                => /\ tmpFile \in {"deleted", "left"}
                   /\ http = TranscribeHandlerExit(args, outcome)
           /\ ~UploadPasses(args) => RefusedAtUpload

C26_Witness ==
    /\ pc = "done" /\ op = "transcribe" /\ layer = "http"
    /\ UploadPasses(args)
    /\ outcome.kind = "raise" /\ outcome.exc = "RuntimeError"
    /\ http.status = 500
    /\ tmpFile = "deleted"

\* --- requests side by side (checked under SpecConc)

\* C24: summarize, quiz and transcribe requests run side by side in any
\* interleaving without coordination: what each request sends, returns and
\* answers is what it would send, return and answer alone, a function of its
\* own input, the credential of the process and the result of its own
\* external call; each invocation that gets as far builds one client handle
\* of its own, and its temporary file is touched by no other request.
C24_RequestsIndependent ==
    \A r \in 1..MaxRequests :
        LET u == args[r]
            b == CASE op[r] = "summarize" -> SummarizeBegin(u, apiKey)
                   [] op[r] = "quiz" -> QuizBegin(u, apiKey)
                   [] op[r] = "transcribe" -> TranscribeBegin(TempFileArgs(u), apiKey)
            out == IF b.request.api = "none" THEN b.outcome
                   ELSE CASE op[r] = "summarize" -> SummarizeResume(reply[r])
                          [] op[r] = "quiz" -> QuizResume(reply[r])
                          [] op[r] = "transcribe" -> TranscribeResume(reply[r])
            answer == CASE op[r] = "summarize" -> SummaryHandlerExit(u, out)
                        [] op[r] = "quiz" -> QuizHandlerExit(u, out)
                        [] op[r] = "transcribe" -> TranscribeHandlerExit(u, out)
        IN  /\ pc[r] = "written" => tmpFile[r] = "present"
            /\ (pc[r] = "done" /\ op[r] = "transcribe" /\ UploadCheck(u).status # 0)
                    => /\ http[r] = UploadCheck(u)
                       /\ clients[r] = 0 /\ extCalls[r] = 0 /\ outcome[r] = NoOutcome
            /\ (pc[r] \in {"awaiting", "done"}
                    /\ ~(op[r] = "transcribe" /\ UploadCheck(u).status # 0))
                    => /\ sent[r] = b.request
                       /\ clients[r] = b.clients
                       /\ extCalls[r] = ExternalCalls(b)
                       /\ pc[r] = "awaiting"
                            => /\ b.request.api # "none" /\ reply[r] = NoReply
                               /\ op[r] = "transcribe" => tmpFile[r] = "present"
                       /\ pc[r] = "done"
                            => /\ outcome[r] = out
                               /\ http[r] = answer
                               /\ op[r] = "transcribe" => tmpFile[r] \in {"deleted", "left"}

C24_Witness ==
    /\ pc[1] = "awaiting" /\ op[1] = "transcribe"
    /\ pc[2] = "done" /\ op[2] = "transcribe"
    /\ args[1] # args[2]
    /\ http[2].status = 200
    /\ tmpFile[1] = "present" /\ tmpFile[2] = "deleted"
    /\ clients[1] = 1 /\ clients[2] = 1

====
